---- MODULE Spec2Model ----
(***************************************************************************)
(* Model of src/src/lib.rs: the Counter type (u32) and its six functions   *)
(* new_counter, increment, decrement, add, subtract, reset.                *)
(*                                                                         *)
(* A Counter keeps its full 32-bit width.  Because the model checker's     *)
(* integers are narrower than 2^32, a number is written in base 2^16 as a  *)
(* pair <<hi, lo>> with 0 <= lo < Base, standing for hi * Base + lo.       *)
(* A u32 is such a pair with 0 <= hi < Base.  Mathematical (unbounded)     *)
(* integers use the same pairs with hi ranging over all integers, so that  *)
(* c + 1 for c = u32::MAX is the pair <<Base, 0>> and 0 - 1 is <<-1,       *)
(* Base - 1>>.                                                             *)
(***************************************************************************)
EXTENDS Integers, FiniteSets, Sequences, TLC

\* ------------------------------------------------------------------ bounds

\* Longest sequence of operations applied to one counter.
MaxSteps == 3

\* How many values next to 0 and next to u32::MAX the arguments are drawn from.
ArgSpan == 2

\* ------------------------------------------------------- the Counter type

\* Half the width of Counter (pub type Counter = u32): one limb of a pair.
LimbBits == 16

Base == 2 ^ LimbBits

Limb == 0 .. (Base - 1)

\* pub type Counter = u32: membership of a value in the type's range.
IsCounter(x) == x[1] \in Limb /\ x[2] \in Limb

Zero == <<0, 0>>

One == <<0, 1>>

\* u32::MAX = 2^32 - 1
U32Max == <<Base - 1, Base - 1>>

\* 2^32 as a mathematical integer (not a Counter).
TwoPow32 == <<Base, 0>>

\* ------------------------------------- mathematical integers (unbounded)

IntAdd(a, b) ==
    LET s == a[2] + b[2]
    IN  <<a[1] + b[1] + (s \div Base), s % Base>>

IntSub(a, b) ==
    LET d == a[2] - b[2]
    IN  <<a[1] - b[1] + (d \div Base), d % Base>>

IntLess(a, b) == a[1] < b[1] \/ (a[1] = b[1] /\ a[2] < b[2])

\* x mod 2^32 for a mathematical integer x with -2^32 <= x < 2^33: the unique
\* representative in [0, 2^32 - 1] congruent to x.
Mod2Pow32(x) ==
    IF IntLess(x, Zero) THEN IntAdd(x, TwoPow32)
    ELSE IF IntLess(x, TwoPow32) THEN x
    ELSE IntSub(x, TwoPow32)

\* ------------------------------------------- u32 primitives used by lib.rs

\* u32::saturating_add: what a clamping implementation would compute.
saturating_add(a, b) ==
    LET s == IntAdd(a, b)
    IN  IF IntLess(s, TwoPow32) THEN s ELSE U32Max

\* Addition whose carry out of the low limb is lost.
carryless_add(a, b) == <<(a[1] + b[1]) % Base, (a[2] + b[2]) % Base>>

\* Addition that is not reduced to 32 bits.
unreduced_add(a, b) == IntAdd(a, b)

\* u32::wrapping_add: 32-bit adder, the carry out of bit 31 is discarded.
wrapping_add(a, b) ==
    LET lo    == a[2] + b[2]
        carry == IF lo >= Base THEN 1 ELSE 0
        hi    == a[1] + b[1] + carry
    IN  <<IF hi >= Base THEN hi - Base ELSE hi,
          IF lo >= Base THEN lo - Base ELSE lo>>

\* u32::saturating_sub: what a clamping implementation would compute.
saturating_sub(a, b) == IF IntLess(a, b) THEN Zero ELSE IntSub(a, b)

\* Subtraction whose borrow from the high limb is lost.
borrowless_sub(a, b) == <<(a[1] - b[1]) % Base, (a[2] - b[2]) % Base>>

\* u32::wrapping_sub: 32-bit subtractor, the borrow out of bit 31 is discarded.
wrapping_sub(a, b) ==
    LET borrow == IF a[2] < b[2] THEN 1 ELSE 0
        lo     == a[2] - b[2]
        hi     == a[1] - b[1] - borrow
    IN  <<IF hi < 0 THEN hi + Base ELSE hi,
          IF lo < 0 THEN lo + Base ELSE lo>>

\* ------------------------------------------------- the six functions

new_counter == Zero

increment_saturating(c) == saturating_add(c, One)

increment(c) == wrapping_add(c, One)

decrement_saturating(c) == saturating_sub(c, One)

decrement(c) == wrapping_sub(c, One)

add_saturating(c, n) == saturating_add(c, n)

add(c, n) == wrapping_add(c, n)

subtract_saturating(c, n) == saturating_sub(c, n)

subtract(c, n) == wrapping_sub(c, n)

reset_keep(c) == c

reset(c) == Zero

\* ------------------------------------------------------------ arguments

\* Counter values the callers pass: the neighbourhoods of 0 and of u32::MAX,
\* both sides of 2^31 and of the limb boundary 2^16, and the values the
\* test module uses (3, 5, 42, 100).
Args ==
    {<<0, i>> : i \in 0 .. ArgSpan}
    \cup {<<Base - 1, Base - 1 - i>> : i \in 0 .. ArgSpan}
    \cup {<<Base \div 2, 0>>, <<(Base \div 2) - 1, Base - 1>>}
    \cup {<<0, Base - 1>>, <<1, 0>>}
    \cup {<<0, 3>>, <<0, 5>>, <<0, 42>>, <<0, 100>>}

\* ---------------------------------------------------------------- state

VARIABLES
    c,      \* the caller's current Counter
    op,     \* the function that produced c
    arg,    \* the n passed to it (Zero when it takes none)
    prev,   \* the Counter passed to it
    op1,    \* the function that produced prev
    arg1,   \* the n passed to that call
    prev2,  \* the Counter passed to that call
    steps   \* operations applied since new_counter()

vars == <<c, op, arg, prev, op1, arg1, prev2, steps>>

Init ==
    /\ c = new_counter
    /\ op = "new_counter"
    /\ arg = Zero
    /\ prev = Zero
    /\ op1 = "none"
    /\ arg1 = Zero
    /\ prev2 = Zero
    /\ steps = 0

\* The caller replaces its counter by the result r of calling f with n.
Call(f, n, r) ==
    /\ steps < MaxSteps
    /\ c' = r
    /\ op' = f
    /\ arg' = n
    /\ prev' = c
    /\ op1' = op
    /\ arg1' = arg
    /\ prev2' = prev
    /\ steps' = steps + 1

NewCounter ==
    /\ c' = new_counter
    /\ op' = "new_counter"
    /\ arg' = Zero
    /\ prev' = Zero
    /\ op1' = "none"
    /\ arg1' = Zero
    /\ prev2' = Zero
    /\ steps' = 0

Increment == Call("increment", Zero, increment(c))

Decrement == Call("decrement", Zero, decrement(c))

Add(n) == Call("add", n, add(c, n))

Subtract(n) == Call("subtract", n, subtract(c, n))

Reset == Call("reset", Zero, reset(c))

Next ==
    \/ NewCounter
    \/ Increment
    \/ Decrement
    \/ \E n \in Args : Add(n)
    \/ \E n \in Args : Subtract(n)
    \/ Reset

Spec == Init /\ [][Next]_vars

\* ------------------------------------------------------------ properties

\* Every operation of the interface can be called in the current state.
AllEnabled ==
    /\ ENABLED Increment
    /\ ENABLED Decrement
    /\ ENABLED Reset
    /\ \A n \in Args : ENABLED Add(n) /\ ENABLED Subtract(n)

\* The last call's plain integer sum c + n overflowed the u32 range.
Overflowed(x, n) == ~IntLess(IntAdd(x, n), TwoPow32)

\* C1: increment(c) equals add(c, 1) and equals (c + 1) mod 2^32 for the
\* Counter c it was called with; increment(u32::MAX) is 0, and increment can
\* always be called.
C1_IncrementIsAddOneMod ==
    /\ op = "increment" =>
        /\ c = add(prev, One)
        /\ c = Mod2Pow32(IntAdd(prev, One))
        /\ (prev = U32Max => c = Zero)
        /\ (prev = Zero => c = One)
        /\ (prev = <<0, 5>> => c = <<0, 6>>)
    /\ (steps < MaxSteps => ENABLED Increment)

C1_Witness == op = "increment" /\ prev = U32Max /\ c = Zero

\* C2: decrement(c) equals subtract(c, 1) and equals (c - 1) mod 2^32 for the
\* Counter c it was called with; decrement(0) is u32::MAX, and decrement can
\* always be called.
C2_DecrementIsSubtractOneMod ==
    /\ op = "decrement" =>
        /\ c = subtract(prev, One)
        /\ c = Mod2Pow32(IntSub(prev, One))
        /\ (prev = Zero => c = U32Max)
        /\ (prev = One => c = Zero)
        /\ (prev = <<0, 5>> => c = <<0, 4>>)
    /\ (steps < MaxSteps => ENABLED Decrement)

C2_Witness == op = "decrement" /\ prev = Zero /\ c = U32Max

\* C3: add(c, n) is exactly (c + n) mod 2^32: the plain sum when it fits in
\* 32 bits, the sum minus 2^32 when it does not (never clamped to u32::MAX
\* for that reason), and add(c, 0) is c.
C3_AddIsSumMod ==
    op = "add" =>
        /\ c = Mod2Pow32(IntAdd(prev, arg))
        /\ (Overflowed(prev, arg) => c = IntSub(IntAdd(prev, arg), TwoPow32))
        /\ (~Overflowed(prev, arg) => c = IntAdd(prev, arg))
        /\ (arg = Zero => c = prev)
        /\ (prev = <<0, 5>> /\ arg = <<0, 3>> => c = <<0, 8>>)

C3_Witness ==
    op = "add" /\ Overflowed(prev, arg) /\ prev # U32Max /\ arg # U32Max
        /\ c # U32Max

\* C4: subtract(c, n) is exactly (c - n) mod 2^32: the plain difference when
\* n <= c, the difference plus 2^32 when n > c (not 0), and subtract(c, 0)
\* is c.
C4_SubtractIsDifferenceMod ==
    op = "subtract" =>
        /\ c = Mod2Pow32(IntSub(prev, arg))
        /\ (IntLess(prev, arg) =>
                c = IntAdd(IntSub(prev, arg), TwoPow32) /\ c # Zero)
        /\ (~IntLess(prev, arg) => c = IntSub(prev, arg))
        /\ (arg = Zero => c = prev)
        /\ (prev = <<0, 5>> /\ arg = <<0, 3>> => c = <<0, 2>>)

C4_Witness == op = "subtract" /\ IntLess(prev, arg) /\ arg # One /\ c # Zero

\* C5: decrement undoes increment and increment undoes decrement for every
\* Counter, also when the first of the two calls wraps around.
C5_IncrementDecrementInverse ==
    /\ (op1 = "increment" /\ op = "decrement" => c = prev2)
    /\ (op1 = "decrement" /\ op = "increment" => c = prev2)

C5_Witness ==
    op1 = "increment" /\ op = "decrement" /\ prev2 = U32Max /\ prev = Zero
        /\ c = U32Max

\* C6: two successive additions of n then m give the same Counter as one
\* addition of (n + m) mod 2^32, whether or not any of the sums overflows.
C6_AddComposes ==
    op1 = "add" /\ op = "add" =>
        c = add(prev2, Mod2Pow32(IntAdd(arg1, arg)))

C6_Witness ==
    op1 = "add" /\ op = "add" /\ Overflowed(prev2, arg1)
        /\ Overflowed(arg1, arg) /\ arg1[2] + arg[2] >= Base

\* C7: two successive subtractions of n then m give the same Counter as one
\* subtraction of (n + m) mod 2^32, whether or not a subtraction underflows
\* or n + m overflows.
C7_SubtractComposes ==
    op1 = "subtract" /\ op = "subtract" =>
        c = subtract(prev2, Mod2Pow32(IntAdd(arg1, arg)))

C7_Witness ==
    op1 = "subtract" /\ op = "subtract" /\ IntLess(prev2, arg1)
        /\ Overflowed(arg1, arg) /\ arg1[2] + arg[2] >= Base

\* C8: new_counter() is 0, and reset returns 0 whatever Counter it is given
\* and whatever operations produced that Counter, which is the value of a
\* freshly created counter.
C8_ResetIsNewCounter ==
    /\ new_counter = Zero
    /\ (op = "new_counter" => c = Zero)
    /\ (op = "reset" => c = Zero /\ c = new_counter)

C8_Witness ==
    op = "reset" /\ prev # Zero /\ op1 \in {"add", "subtract"}
        /\ steps >= 2 /\ c = Zero

\* C9: in every state reached from new_counter() by any sequence of the
\* operations, every value produced is a Counter in [0, 2^32 - 1] and every
\* operation can be called with every argument.
C9_TotalAndInRange ==
    /\ IsCounter(c)
    /\ IsCounter(prev)
    /\ IsCounter(prev2)
    /\ (steps < MaxSteps => AllEnabled)

C9_Witness ==
    /\ steps >= 2
    /\ op1 = "add" /\ Overflowed(prev2, arg1)
    /\ op = "subtract" /\ IntLess(prev, arg)

====
